---- MODULE Spec2Model ----
(***************************************************************************)
(* SerialInterface (src/src/SerialInterface.cpp): the serial port object   *)
(* of the ZigBee terminal, on its two backends (POSIX termios + select,    *)
(* Windows overlapped I/O), together with the part of the operating system *)
(* it talks to: one serial device with its control block, its input queue  *)
(* and the handles the process holds.                                      *)
(*                                                                         *)
(* Every member function is one action (the caller's thread runs it to     *)
(* completion); the watcher thread (select_thread) is a separate process   *)
(* that takes one step per read of the shared fields or per OS wait.       *)
(* Results of operating system calls are inputs of the actions.            *)
(***************************************************************************)
EXTENDS Integers, Sequences, FiniteSets, Bags, TLC

(* ------------------------------ bounds -------------------------------- *)

\* watcher threads that may exist at once (open_port is not called beyond it)
MaxWatchers == 2

\* the most names one enumeration collects
MaxPorts == 3

\* the most calls of set_baud, set_bits, set_flow and set_parity in one run
MaxSets == 3

(* --------------------------- value domains ---------------------------- *)

Backends == {"posix", "win"}

\* status codes of SerialInterface.h
SI_SUCCESS == "SI_SUCCESS"
SI_ERROR == "SI_ERROR"
SI_PORT_NOT_OPEN == "SI_PORT_NOT_OPEN"
\* no call of the caller's thread has returned yet
NoRet == "none"

\* handle values: -1 / INVALID_HANDLE_VALUE, NULL, and the handles the OS gives out.
\* The object holds at most one port handle at a time, so the OS hands out the
\* same descriptor again after a close (lowest free descriptor).
NoHandle == "INVALID"
NullHandle == "NULL"
PortHandle == "h3"
EventHandle1 == "h4"
EventHandle2 == "h5"

\* identifiers: "" is the constructor's value, "p1" names the device of the host,
\* "p2" names nothing
Ports == {"p1", "p2"}
ExistingPorts == {"p1"}

\* requested byte counts of read() and write()
Counts == {0, 1}

\* inputs of the transport parameter setters
BaudInputs == {9600, 14400}
BitsInputs == {4, 7, 9}
FlowInputs == {0, 1, 2, 3}
ParityInputs == {2, 3}

\* enum values of SerialInterface.h, in the order of the range checks of
\* set_flow / set_parity (0..2)
SI_FLOW_NONE == 0
SI_FLOW_HARDWARE == 1
SI_FLOW_XON_XOFF == 2
SI_PARITY_NONE == 0
SI_PARITY_ODD == 1
SI_PARITY_EVEN == 2

(* --------------------------- control blocks --------------------------- *)

\* struct termios / DCB as the device holds it before the program touches it:
\* a cooked-mode line at 9600 baud
DeviceControlBlock(be) ==
  IF be = "posix"
  THEN [c_cflag |-> {"B9600", "CS8", "CREAD", "HUPCL"},
        c_iflag |-> {"ICRNL", "IXON"},
        c_oflag |-> {"OPOST"},
        c_lflag |-> {"ICANON", "ECHO"},
        VTIME |-> 0, VMIN |-> 1, rest |-> "device"]
  ELSE [BaudRate |-> 9600, ByteSize |-> 8, StopBits |-> "ONESTOPBIT",
        Parity |-> "NOPARITY",
        fOutxCtsFlow |-> FALSE, fOutxDsrFlow |-> FALSE,
        fDtrControl |-> "ENABLE", fOutX |-> FALSE, fInX |-> FALSE,
        fRtsControl |-> "ENABLE", rest |-> "device"]

\* an all-zero block (memset, or zero-filled memory)
ZeroControlBlock(be) ==
  IF be = "posix"
  THEN [c_cflag |-> {}, c_iflag |-> {}, c_oflag |-> {}, c_lflag |-> {},
        VTIME |-> 0, VMIN |-> 0, rest |-> "zero"]
  ELSE [BaudRate |-> 0, ByteSize |-> 0, StopBits |-> "ONESTOPBIT",
        Parity |-> "NOPARITY",
        fOutxCtsFlow |-> FALSE, fOutxDsrFlow |-> FALSE,
        fDtrControl |-> "DISABLE", fOutX |-> FALSE, fInX |-> FALSE,
        fRtsControl |-> "DISABLE", rest |-> "zero"]

\* the constructor leaves port_termios(_saved) / dcb_serial_params(_saved)
\* uninitialised: what is in them is indeterminate, a block that is none of the
\* blocks the program or the device ever produces
UninitControlBlock(be) == [ZeroControlBlock(be) EXCEPT !.rest = "indeterminate"]

\* trace entries carry a control block or this
NoVal == [none |-> TRUE]

\* what the caller's byte count variable holds before a call of read / write:
\* a value no transfer of the model produces
BytesBefore == 9
\* no identifier was given
NoArg == "-"

(* ------------------------------- state -------------------------------- *)

VARIABLES
  backend,              \* which #ifdef branch the build took: __unix__ or _WIN32
  alive,                \* the object has not been destroyed
  hung,                 \* the process is lost in a recursion that never returns
  port, baud, bits, flow, parity,          \* configuration fields
  running,              \* the flag launch_select_thread / close_port share with the watcher
  port_fd,              \* port_fd (POSIX) or h_port (Windows)
  h_overlapped, h_overlapped_thread,       \* Windows event objects
  port_termios,         \* port_termios or dcb_serial_params
  port_termios_saved,   \* port_termios_saved or dcb_serial_params_saved
  devcb,                \* operating system: the control block of the device
  oshandles,            \* operating system: the handles the process holds
  pending,              \* operating system: bytes are queued for reading
  watchers,             \* the threads launch_select_thread created and that still run (a bag)
  op,                   \* the member function (or thread step) that ran last
  ret,                  \* what it returned, when it was a call of the caller
  bytes_out,            \* the caller's bytes_read / bytes_written variable
  arg,                  \* the argument a call of a setter was given
  sets,                 \* how many calls of transport-parameter setters were made
  trace,                \* OS calls and notifications of the last step, in order
  announced,            \* the last of port-opened and port-closed raised was port-opened
  cbAtOpen,             \* the device's control block when the open session's handle was acquired
  openedPort            \* the identifier the open session's handle was acquired with

vars == <<backend, alive, hung, port, baud, bits, flow, parity, running, port_fd,
          h_overlapped, h_overlapped_thread, port_termios, port_termios_saved,
          devcb, oshandles, pending, watchers, op, ret, bytes_out, arg, sets,
          announced,
          trace, cbAtOpen, openedPort>>

\* the fields an operation works on, as one record
Cur ==
  [alive |-> alive, hung |-> hung, port |-> port, baud |-> baud, bits |-> bits,
   flow |-> flow, parity |-> parity, running |-> running, port_fd |-> port_fd,
   h_overlapped |-> h_overlapped, h_overlapped_thread |-> h_overlapped_thread,
   port_termios |-> port_termios, port_termios_saved |-> port_termios_saved,
   devcb |-> devcb, oshandles |-> oshandles, pending |-> pending,
   watchers |-> watchers, ret |-> NoRet,
   bytes_out |-> BytesBefore, arg |-> NoArg, sets |-> sets, trace |-> <<>>, cbAtOpen |-> cbAtOpen,
   openedPort |-> openedPort]

\* port-opened and port-closed among the entries tr of a step, in order
Told(tr) ==
  SelectSeq(tr, LAMBDA e : e.call = "emit" /\ e.arg \in {"port_opened", "port_closed"})

\* whether port-opened is the one the listener heard last, after tr
LastTold(was, tr) ==
  IF Told(tr) = <<>> THEN was ELSE Told(tr)[Len(Told(tr))].arg = "port_opened"

\* the step's result becomes the next state
Commit(m, name) ==
  /\ alive' = m.alive /\ hung' = m.hung /\ port' = m.port /\ baud' = m.baud
  /\ bits' = m.bits /\ flow' = m.flow /\ parity' = m.parity
  /\ running' = m.running /\ port_fd' = m.port_fd
  /\ h_overlapped' = m.h_overlapped
  /\ h_overlapped_thread' = m.h_overlapped_thread
  /\ port_termios' = m.port_termios
  /\ port_termios_saved' = m.port_termios_saved
  /\ devcb' = m.devcb /\ oshandles' = m.oshandles /\ pending' = m.pending
  /\ watchers' = m.watchers /\ ret' = m.ret
  /\ bytes_out' = m.bytes_out /\ arg' = m.arg /\ trace' = m.trace
  /\ sets' = m.sets
  /\ announced' = LastTold(announced, m.trace)
  /\ cbAtOpen' = m.cbAtOpen /\ openedPort' = m.openedPort
  /\ op' = name
  /\ UNCHANGED backend

(* ------------------------------ helpers ------------------------------- *)

is_open(m) == m.port_fd # NoHandle

\* one entry of the trace: an OS call or a notification, with the object's
\* state at that moment
Ev(m, c, a, v, k) ==
  [call |-> c, arg |-> a, val |-> v, ok |-> k,
   open |-> is_open(m), running |-> m.running]

Log(m, c, a, v, k) == [m EXCEPT !.trace = Append(@, Ev(m, c, a, v, k))]

\* sigc signal emit: m_port_opened, m_port_closed, m_port_error, m_port_receive_data
Emit(m, sig) == Log(m, "emit", sig, NoVal, TRUE)

\* a block the driver handed out, with or without the program's settings in
\* it, or one it took before
Plausible(cb) == cb.rest \in {"device", "taken"}

\* tcsetattr(port_fd, TCSANOW, &cb) / SetCommState(h_port, &cb): the device takes
\* the block when the handle is one the process holds and the OS accepts it;
\* a block it took is one it takes again
SetControlBlock(m, why, cb, accepts) ==
  LET good == accepts /\ m.port_fd \in m.oshandles
      taken == [cb EXCEPT !.rest = IF Plausible(cb) THEN @ ELSE "taken"]
  IN  Log([m EXCEPT !.devcb = IF good THEN taken ELSE @],
          IF backend = "posix" THEN "tcsetattr" ELSE "SetCommState", why, cb, good)

\* tcflush(port_fd, TCOFLUSH); tcflush(port_fd, TCIFLUSH)
Flush(m, accepts) ==
  LET good == accepts /\ m.port_fd \in m.oshandles
      m1 == Log(m, "tcflush", "TCOFLUSH", NoVal, good)
  IN  Log([m1 EXCEPT !.pending = IF good THEN FALSE ELSE @],
          "tcflush", "TCIFLUSH", NoVal, good)

\* a thread of an earlier session: not of the open one, its wait not on the open handle
Stale(t) == [t EXCEPT !.own = FALSE, !.live = FALSE]

\* close(fd) / CloseHandle(h): the process no longer holds the handle; the
\* input queue of the device goes with its last handle, and the session the
\* handle stood for is over (no thread is of the open session any more)
Release(m, h) ==
  Log([m EXCEPT !.oshandles = @ \ {h},
                !.pending = IF h = PortHandle THEN FALSE ELSE @,
                !.watchers = IF h = PortHandle THEN BagOfAll(Stale, @) ELSE @,
                !.cbAtOpen = IF h = PortHandle THEN NoVal ELSE @,
                !.openedPort = IF h = PortHandle THEN "" ELSE @],
      IF backend = "posix" THEN "close" ELSE "CloseHandle", h,
      [at_open |-> m.cbAtOpen, now |-> m.devcb], h \in m.oshandles)

(* -------------------------- configure_port ---------------------------- *)

SupportedBauds == {300, 600, 1200, 2400, 4800, 9600, 19200, 38400, 57600, 115200}

\* a switch on baud that lacks the case 9600 (C12 tells it from BaudRate)
BaudRateLacksCase(b) == IF b \in SupportedBauds \ {9600} THEN b ELSE 19200

\* the switch on baud, after the default of 19200 put in front of it
BaudRate(b) == IF b \in SupportedBauds THEN b ELSE 19200

\* Bnnn of termios.h, by name
BaudFlag(b) ==
  CASE BaudRate(b) = 300 -> "B300"
    [] BaudRate(b) = 600 -> "B600"
    [] BaudRate(b) = 1200 -> "B1200"
    [] BaudRate(b) = 2400 -> "B2400"
    [] BaudRate(b) = 4800 -> "B4800"
    [] BaudRate(b) = 9600 -> "B9600"
    [] BaudRate(b) = 19200 -> "B19200"
    [] BaudRate(b) = 38400 -> "B38400"
    [] BaudRate(b) = 57600 -> "B57600"
    [] OTHER -> "B115200"

BitsFlag(n) ==
  CASE n = 5 -> {"CS5"} [] n = 6 -> {"CS6"} [] n = 7 -> {"CS7"}
    [] n = 8 -> {"CS8"} [] OTHER -> {}

\* a configure_port that ORs the input flags into the block it read at open
\* instead of assigning them (C14 tells it from TermiosOf)
TermiosOfOrsInput(m) ==
  [m.port_termios EXCEPT
     !.c_cflag = {BaudFlag(m.baud)} \cup BitsFlag(m.bits) \cup {"CREAD"}
                 \cup (CASE m.flow = SI_FLOW_NONE -> {"CLOCAL"}
                         [] m.flow = SI_FLOW_HARDWARE -> {"CRTSCTS"}
                         [] OTHER -> {}),
     !.c_iflag = @ \cup {"IGNPAR", "IGNBRK"}
                 \cup (IF m.flow = SI_FLOW_XON_XOFF THEN {"IXON", "IXOFF"} ELSE {}),
     !.c_oflag = {},
     !.c_lflag = {},
     !.VTIME = 0,
     !.VMIN = 1]

\* the block configure_port assembles in port_termios from the fields (POSIX)
TermiosOf(m) ==
  [m.port_termios EXCEPT
     !.c_cflag = {BaudFlag(m.baud)} \cup BitsFlag(m.bits)
                 \cup (CASE m.parity = SI_PARITY_ODD -> {"PARODD", "PARENB"}
                         [] m.parity = SI_PARITY_EVEN -> {"PARENB"}
                         [] OTHER -> {})
                 \cup {"CREAD"}
                 \cup (CASE m.flow = SI_FLOW_NONE -> {"CLOCAL"}
                         [] m.flow = SI_FLOW_HARDWARE -> {"CRTSCTS"}
                         [] OTHER -> {}),
     !.c_iflag = {"IGNPAR", "IGNBRK"}
                 \cup (IF m.flow = SI_FLOW_XON_XOFF THEN {"IXON", "IXOFF"} ELSE {}),
     !.c_oflag = {},
     !.c_lflag = {},
     !.VTIME = 0,
     !.VMIN = 1]

\* the block configure_port assembles in dcb_serial_params from the fields (Windows)
DcbOf(m) ==
  [m.port_termios EXCEPT
     !.BaudRate = BaudRate(m.baud),
     !.ByteSize = m.bits,
     !.StopBits = "ONESTOPBIT",
     !.Parity = CASE m.parity = SI_PARITY_ODD -> "ODDPARITY"
                  [] m.parity = SI_PARITY_EVEN -> "EVENPARITY"
                  [] m.parity = SI_PARITY_NONE -> "NOPARITY"
                  [] OTHER -> @,
     !.fOutxCtsFlow = IF m.flow \in {SI_FLOW_NONE, SI_FLOW_XON_XOFF} THEN FALSE
                      ELSE IF m.flow = SI_FLOW_HARDWARE THEN TRUE ELSE @,
     !.fOutxDsrFlow = IF m.flow \in {SI_FLOW_NONE, SI_FLOW_XON_XOFF} THEN FALSE
                      ELSE IF m.flow = SI_FLOW_HARDWARE THEN TRUE ELSE @,
     !.fDtrControl = IF m.flow \in {SI_FLOW_NONE, SI_FLOW_XON_XOFF} THEN "DISABLE"
                     ELSE IF m.flow = SI_FLOW_HARDWARE THEN "HANDSHAKE" ELSE @,
     !.fOutX = IF m.flow \in {SI_FLOW_NONE, SI_FLOW_HARDWARE} THEN FALSE
               ELSE IF m.flow = SI_FLOW_XON_XOFF THEN TRUE ELSE @,
     !.fInX = IF m.flow \in {SI_FLOW_NONE, SI_FLOW_HARDWARE} THEN FALSE
              ELSE IF m.flow = SI_FLOW_XON_XOFF THEN TRUE ELSE @,
     !.fRtsControl = IF m.flow \in {SI_FLOW_NONE, SI_FLOW_XON_XOFF} THEN "DISABLE"
                     ELSE IF m.flow = SI_FLOW_HARDWARE THEN "HANDSHAKE" ELSE @]

\* configure_port(): assemble the block in memory, push it to the handle; the
\* result of the push is not looked at (POSIX) or only reported (Windows)
configure_port(m, accepts) ==
  LET m1 == [m EXCEPT !.port_termios =
                         IF backend = "posix" THEN TermiosOf(m) ELSE DcbOf(m)]
  IN  SetControlBlock(m1, "configure", m1.port_termios, accepts)

(* ----------------------------- close_port ----------------------------- *)

\* what the OS answers to the calls of one close_port(): mask says that
\* SetCommMask succeeds in the outermost call (when not, it does in a nested
\* one), diverge says that it fails in every nested call, restore says that
\* the driver takes the saved block (it takes back a block it handed out; of
\* any other block it takes or refuses)
NoCloseOracle == [mask |-> TRUE, diverge |-> FALSE, restore |-> TRUE]

CloseAnswers(open, plausible) ==
  IF ~open THEN {NoCloseOracle}
  ELSE LET takes == IF plausible THEN {TRUE} ELSE BOOLEAN
       IN  IF backend = "posix"
           THEN [mask : {TRUE}, diverge : {FALSE}, restore : takes]
           ELSE [mask : BOOLEAN, diverge : {FALSE}, restore : takes]
                \cup {[NoCloseOracle EXCEPT !.diverge = TRUE]}

CloseOracles(m) == CloseAnswers(is_open(m), Plausible(m.port_termios_saved))

\* a close_port() without its is_open() test: it goes through the motions on a
\* Closed port too (C6 tells it from close_port)
close_port_unguarded(m, o) ==
  [Emit([m EXCEPT !.running = FALSE, !.port_fd = NoHandle], "port_closed")
     EXCEPT !.ret = SI_SUCCESS]

RECURSIVE close_port(_, _)
close_port(m, o) ==
  IF ~is_open(m) THEN [m EXCEPT !.ret = SI_SUCCESS]
  ELSE
    LET m1 == [m EXCEPT !.running = FALSE]
    IN  IF backend = "posix"
        THEN LET m2 == SetControlBlock(m1, "restore", m1.port_termios_saved, o.restore)
                 m3 == Flush(m2, TRUE)
                 m4 == Release(m3, m3.port_fd)
                 m5 == [m4 EXCEPT !.port_fd = NoHandle]
             IN  [Emit(m5, "port_closed") EXCEPT !.ret = SI_SUCCESS]
        ELSE IF o.diverge
        THEN \* SetCommMask fails, and fails again in every nested close_port()
             [Log(m1, "SetCommMask", "EV_RXCHAR", NoVal, FALSE) EXCEPT !.hung = TRUE]
        ELSE IF ~o.mask
        THEN \* SetCommMask fails: close_port() calls itself, then returns SI_ERROR
             LET m2 == Log(m1, "SetCommMask", "EV_RXCHAR", NoVal, FALSE)
                 m3 == close_port(m2, [o EXCEPT !.mask = TRUE])
             IN  [m3 EXCEPT !.ret = SI_ERROR]
        ELSE LET m2 == Log(m1, "SetCommMask", "EV_RXCHAR", NoVal, TRUE)
                 m3 == SetControlBlock(m2, "restore", m2.port_termios_saved, o.restore)
                 m4 == Release(m3, m3.port_fd)
                 m5 == Release(m4, m4.h_overlapped)
                 m6 == Release(m5, m5.h_overlapped_thread)
                 m7 == [m6 EXCEPT !.port_fd = NoHandle,
                                  !.h_overlapped = NoHandle,
                                  !.h_overlapped_thread = NoHandle]
             IN  [Emit(m7, "port_closed") EXCEPT !.ret = SI_SUCCESS]

(* ------------------------------ open_port ----------------------------- *)

\* a thread at the head of select_thread's loop, created by the open session
NewThread == [pc |-> "loop", fd |-> NoHandle, own |-> TRUE, live |-> FALSE]

\* running = true; Glib::Thread::create(select_thread): one more thread
launch_select_thread(m) ==
  Log([m EXCEPT !.running = TRUE, !.watchers = @ (+) SetToBag({NewThread})],
      "Thread::create", "select_thread", NoVal, TRUE)

\* the end of open_port(): start the watcher, notify, succeed
finish_open(m) ==
  [Emit(launch_select_thread(m), "port_opened") EXCEPT !.ret = SI_SUCCESS]

\* the Windows branches "close_port(); return SI_ERROR;"
fail_open(m, o) ==
  LET r == close_port(m, o)
  IN  IF r.hung THEN r ELSE [r EXCEPT !.ret = SI_ERROR]

\* open_port() after the handle was acquired, POSIX: no result is looked at
open_posix(m, o) ==
  LET m1 == Log([m EXCEPT !.port_termios = IF o.snapshot THEN m.devcb ELSE @],
                "tcgetattr", "", NoVal, o.snapshot)
      m2 == [m1 EXCEPT !.port_termios_saved = m1.port_termios]
      m3 == configure_port(m2, o.configure)
  IN  finish_open(Flush(m3, o.flush))

\* CreateEvent gives a handle, or NULL when it fails (never INVALID_HANDLE_VALUE)
CreateEvent(m, h, succeeds) ==
  Log([m EXCEPT !.oshandles = IF succeeds THEN @ \cup {h} ELSE @],
      "CreateEvent", IF succeeds THEN h ELSE NullHandle, NoVal, succeeds)

\* open_port() after the handle was acquired, Windows
open_win(m, o) ==
  LET a == Log(m, "SetCommMask", "EV_RXCHAR", NoVal, o.mask)
      b0 == [a EXCEPT !.port_termios = ZeroControlBlock("win")]
      b == Log([b0 EXCEPT !.port_termios = IF o.snapshot THEN a.devcb ELSE @],
               "GetCommState", "", NoVal, o.snapshot)
      c0 == [b EXCEPT !.port_termios_saved = b.port_termios]
      c == configure_port(c0, o.configure)
      d == Log(c, "GetCommTimeouts", "", NoVal, o.gettimeouts)
      e == Log(d, "SetCommTimeouts", "", NoVal, o.settimeouts)
      f0 == CreateEvent(e, EventHandle1, o.event1)
      f == [f0 EXCEPT !.h_overlapped = IF o.event1 THEN EventHandle1 ELSE NullHandle]
      g0 == CreateEvent(f, EventHandle2, o.event2)
      g == [g0 EXCEPT !.h_overlapped_thread =
                         IF o.event2 THEN EventHandle2 ELSE NullHandle]
  IN  IF ~o.mask THEN fail_open(a, o.c2)
      ELSE IF ~o.snapshot THEN fail_open(b, o.c2)
      ELSE IF ~o.gettimeouts THEN fail_open(d, o.c2)
      ELSE IF ~o.settimeouts THEN fail_open(e, o.c2)
      ELSE IF f.h_overlapped = NoHandle THEN fail_open(f, o.c2)
      ELSE IF g.h_overlapped_thread = NoHandle THEN fail_open(g, o.c2)
      ELSE finish_open(g)

\* open() / CreateFile(): the handle, or -1 / INVALID_HANDLE_VALUE
Acquire(m, succeeds) ==
  LET got == succeeds /\ m.port \in ExistingPorts
      m1 == [m EXCEPT !.port_fd = IF got THEN PortHandle ELSE NoHandle,
                      !.oshandles = IF got THEN @ \cup {PortHandle} ELSE @,
                      !.cbAtOpen = IF got THEN m.devcb ELSE @,
                      !.openedPort = IF got THEN m.port ELSE @]
  IN  Log(m1, IF backend = "posix" THEN "open" ELSE "CreateFile", m.port, NoVal, got)

\* an open_port() without its is_open() test after open() / CreateFile():
\* it goes on with a handle it did not get (C8 tells it from open_port)
open_port_unchecked(m, o) ==
  LET m0 == close_port(m, o.c1)
      m1 == Acquire(m0, o.acquire)
  IN  IF m0.hung THEN m0
      ELSE IF backend = "posix" THEN open_posix(m1, o)
      ELSE open_win(m1, o)

open_port(m, o) ==
  LET m0 == close_port(m, o.c1)
      m1 == Acquire(m0, o.acquire)
  IN  IF m0.hung THEN m0
      ELSE IF ~is_open(m1) THEN [m1 EXCEPT !.ret = SI_ERROR]
      ELSE IF backend = "posix" THEN open_posix(m1, o)
      ELSE open_win(m1, o)

(* ---------------------------- read / write ---------------------------- *)

\* what ::write(port_fd, buf, count) may return on a handle opened O_NDELAY:
\* -1 (a failure, or EAGAIN when the output queue is full), or a byte count
PosixWriteOutcomes(m, count) ==
  {[err |-> "EIO", n |-> -1]}
  \cup (IF count = 0 THEN {[err |-> "none", n |-> 0]}
        ELSE {[err |-> "EAGAIN", n |-> -1]}
             \cup {[err |-> "none", n |-> k] : k \in 1..count})

\* what ::read(port_fd, buf, count) may return on a handle opened O_NDELAY:
\* -1 (a failure, or EAGAIN when nothing is queued), or a byte count
PosixReadOutcomes(m, count) ==
  {[err |-> "EIO", n |-> -1]}
  \cup (IF count = 0 THEN {[err |-> "none", n |-> 0]}
        ELSE IF ~m.pending THEN {[err |-> "EAGAIN", n |-> -1]}
        ELSE {[err |-> "none", n |-> k] : k \in 1..count})

\* WriteFile / ReadFile with an OVERLAPPED: done at once, failed, or pending and
\* then waited for on h_overlapped (INFINITE, so WAIT_TIMEOUT does not come back)
WinIoOutcomes(m) ==
  {[io |-> "done", wait |-> "-", result |-> TRUE],
   [io |-> "fail", wait |-> "-", result |-> TRUE],
   [io |-> "pending", wait |-> "WAIT_FAILED", result |-> TRUE]}
  \cup (IF m.h_overlapped \in m.oshandles
        THEN {[io |-> "pending", wait |-> "WAIT_OBJECT_0", result |-> r] : r \in BOOLEAN}
        ELSE {})

\* the Windows body of write() and read(): no branch notifies or closes
win_transfer(m, call, n, o) ==
  LET m1 == Log(m, call, o.io, NoVal, o.io # "fail")
      m2 == Log(m1, "WaitForSingleObject", o.wait, NoVal, o.wait = "WAIT_OBJECT_0")
      m3 == Log(m2, "GetOverlappedResult", "", NoVal, o.result)
      m4 == Log(m1, "SetEvent", "", NoVal, m1.h_overlapped \in m1.oshandles)
  IN  CASE o.io = "fail" -> [m1 EXCEPT !.ret = SI_ERROR]
        [] o.io = "pending" /\ o.wait # "WAIT_OBJECT_0" -> [m2 EXCEPT !.ret = SI_ERROR]
        [] o.io = "pending" /\ ~o.result -> [m3 EXCEPT !.ret = SI_ERROR]
        [] o.io = "pending" -> [m3 EXCEPT !.bytes_out = n, !.ret = SI_SUCCESS]
        [] OTHER -> [m4 EXCEPT !.bytes_out = n, !.ret = SI_SUCCESS]

\* the POSIX body of write() and read(): bytes = ::call(...); -1 notifies and closes.
\* bytes_out = -1 stands for (gsize)-1, which the comparison with -1 matches.
posix_transfer(m, call, o, oc) ==
  LET m1 == Log([m EXCEPT !.bytes_out = o.n], call, o.err, NoVal, o.n # -1)
  IN  IF m1.bytes_out = -1
      THEN [close_port(Emit(m1, "port_error"), oc) EXCEPT !.ret = SI_ERROR]
      ELSE [m1 EXCEPT !.ret = SI_SUCCESS]

\* a write() that zeroes the caller's byte count before it answers that the
\* port is not open (C7 tells it from write)
write_zeroes_count(m, count, o, oc) ==
  IF ~is_open(m) THEN [m EXCEPT !.bytes_out = 0, !.ret = SI_PORT_NOT_OPEN]
  ELSE IF backend = "posix" THEN posix_transfer(m, "write", o, oc)
  ELSE win_transfer(m, "WriteFile", count, o)

write(m, count, o, oc) ==
  IF ~is_open(m) THEN [m EXCEPT !.ret = SI_PORT_NOT_OPEN]
  ELSE IF backend = "posix" THEN posix_transfer(m, "write", o, oc)
  ELSE win_transfer(m, "WriteFile", count, o)

\* a read that takes bytes takes all that are queued when it fills less than
\* the count asked for
read(m, count, o, oc) ==
  IF ~is_open(m) THEN [m EXCEPT !.ret = SI_PORT_NOT_OPEN]
  ELSE IF backend = "posix"
  THEN posix_transfer([m EXCEPT !.pending = IF o.n > 0 /\ o.n < count THEN FALSE ELSE @],
                      "read", o, oc)
  ELSE LET n == IF m.pending THEN count ELSE 0
       IN  win_transfer(m, "ReadFile", n, o)

(* ------------------------------- setters ------------------------------ *)

\* a set_port() without its is_open() test (C10 tells it from set_port)
set_port_always(m, p) == [m EXCEPT !.port = p, !.ret = p]

set_port(m, p) ==
  LET m1 == IF ~is_open(m) THEN [m EXCEPT !.port = p] ELSE m
  IN  [m1 EXCEPT !.ret = m1.port]

set_baud(m, b, accepts) ==
  LET m1 == configure_port([m EXCEPT !.baud = b], accepts)
  IN  [m1 EXCEPT !.ret = m1.baud]

\* a set_bits() without its range test (C11 tells it from set_bits)
set_bits_unchecked(m, b, accepts) ==
  LET m1 == configure_port([m EXCEPT !.bits = b], accepts)
  IN  [m1 EXCEPT !.ret = m1.bits]

set_bits(m, b, accepts) ==
  LET m1 == configure_port(IF b >= 5 /\ b <= 8 THEN [m EXCEPT !.bits = b] ELSE m,
                           accepts)
  IN  [m1 EXCEPT !.ret = m1.bits]

set_flow(m, f, accepts) ==
  LET m1 == configure_port(IF f >= 0 /\ f <= 2 THEN [m EXCEPT !.flow = f] ELSE m,
                           accepts)
  IN  [m1 EXCEPT !.ret = m1.flow]

\* a set_parity() that stores the value and leaves the device as it is (C21
\* tells it from set_parity)
set_parity_unapplied(m, p, accepts) ==
  LET m1 == IF p >= 0 /\ p <= 2 THEN [m EXCEPT !.parity = p] ELSE m
  IN  [m1 EXCEPT !.ret = m1.parity]

set_parity(m, p, accepts) ==
  LET m1 == configure_port(IF p >= 0 /\ p <= 2 THEN [m EXCEPT !.parity = p] ELSE m,
                           accepts)
  IN  [m1 EXCEPT !.ret = m1.parity]

(* --------------------------- enumerate_ports --------------------------- *)

\* the characters of the device names, in the order of their codes
Chars == <<"0", "1", "2", "p", "q">>

CharCode(c) == CHOOSE i \in 1..Len(Chars) : Chars[i] = c

IsDigit(c) == CharCode(c) <= 3

\* the length of the run of digits a name starts with, and its value
RECURSIVE DigitRun(_)
DigitRun(s) == IF s = <<>> \/ ~IsDigit(Head(s)) THEN 0 ELSE 1 + DigitRun(Tail(s))

RECURSIVE RunValue(_, _, _)
RunValue(s, n, acc) ==
  IF n = 0 THEN acc ELSE RunValue(Tail(s), n - 1, acc * 10 + CharCode(Head(s)) - 1)

\* doj::alphanum_comp: character by character, a run of digits on both sides
\* as the numbers they write; a digit sorts before a letter, a prefix before
\* the longer name
RECURSIVE alphanum_comp(_, _)
alphanum_comp(l, r) ==
  IF l = <<>> \/ r = <<>>
  THEN IF r # <<>> THEN -1 ELSE IF l # <<>> THEN 1 ELSE 0
  ELSE IF IsDigit(Head(l)) /\ IsDigit(Head(r))
  THEN LET ln == DigitRun(l)
           rn == DigitRun(r)
           diff == RunValue(l, ln, 0) - RunValue(r, rn, 0)
       IN  IF diff # 0 THEN diff
           ELSE alphanum_comp(SubSeq(l, ln + 1, Len(l)), SubSeq(r, rn + 1, Len(r)))
  ELSE IF IsDigit(Head(l)) THEN -1
  ELSE IF IsDigit(Head(r)) THEN 1
  ELSE IF Head(l) # Head(r) THEN CharCode(Head(l)) - CharCode(Head(r))
  ELSE alphanum_comp(Tail(l), Tail(r))

alphanum_less(l, r) == alphanum_comp(l, r) < 0

\* what std::sort may leave: the same elements, none before one that the
\* comparator puts in front of it; the order of elements the comparator holds
\* equivalent is not determined
SortOutcomes(list) ==
  LET n == Len(list)
      shuffled == {[i \in 1..n |-> list[p[i]]] : p \in Permutations(1..n)}
  IN  {v \in shuffled :
         \A i \in 1..n, j \in 1..n : i < j => ~alphanum_less(v[j], v[i])}

\* erase(std::unique(...)): of every run of equal adjacent elements the first
RECURSIVE unique(_)
unique(list) ==
  IF Len(list) <= 1 THEN list
  ELSE LET front == unique(SubSeq(list, 1, Len(list) - 1))
       IN  IF list[Len(list)] = list[Len(list) - 1] THEN front
           ELSE Append(front, list[Len(list)])

\* enumerate_ports(): the names collected from the host, sorted, duplicates erased
enumerate_ports(m, collected, sorted) ==
  [m EXCEPT !.arg = collected, !.ret = unique(sorted)]

(* ------------------------ the caller's actions ------------------------ *)

\* the caller's thread is free to make a call on a live object
CallerFree == alive /\ ~hung

\* the answers of the OS to one open_port(): independent results on POSIX (none
\* is looked at); on Windows at most one call of an attempt fails, and the
\* first failing checked call ends the attempt
OpenOracle(c1, c2, failAt, cfg, fl, e1, e2) ==
  [c1 |-> c1, c2 |-> c2, acquire |-> failAt # "acquire", mask |-> failAt # "mask",
   snapshot |-> failAt # "snapshot", gettimeouts |-> failAt # "gettimeouts",
   settimeouts |-> failAt # "settimeouts", configure |-> cfg, flush |-> fl,
   event1 |-> e1, event2 |-> e2]

\* the answers that the calls after the first close_port() get; a call that
\* is not reached gets no answer of its own
LaterOracles(m, c1) ==
  LET miss == OpenOracle(c1, NoCloseOracle, "acquire", TRUE, TRUE, TRUE, TRUE)
      early == CloseAnswers(TRUE, Plausible(m.port_termios_saved))
      late == CloseAnswers(TRUE, TRUE)
  IN  IF c1.diverge \/ m.port \notin ExistingPorts THEN {miss}
      ELSE IF backend = "posix"
      THEN {miss} \cup {OpenOracle(c1, NoCloseOracle, failAt, cfg, fl, TRUE, TRUE) :
                          failAt \in {"none", "snapshot"}, cfg \in BOOLEAN,
                          fl \in BOOLEAN}
      ELSE {miss}
           \cup {OpenOracle(c1, NoCloseOracle, "none", cfg, TRUE, e[1], e[2]) :
                   cfg \in BOOLEAN,
                   e \in {<<TRUE, TRUE>>, <<FALSE, TRUE>>, <<TRUE, FALSE>>}}
           \cup {OpenOracle(c1, c2, failAt, TRUE, TRUE, TRUE, TRUE) :
                   c2 \in early, failAt \in {"mask", "snapshot"}}
           \cup {OpenOracle(c1, c2, failAt, TRUE, TRUE, TRUE, TRUE) :
                   c2 \in late, failAt \in {"gettimeouts", "settimeouts"}}

OpenOracles(m) == UNION {LaterOracles(m, c1) : c1 \in CloseOracles(m)}

OpenPort ==
  /\ CallerFree /\ BagCardinality(watchers) < MaxWatchers
  /\ \E o \in OpenOracles(Cur) : Commit(open_port(Cur, o), "open_port")

ClosePort ==
  /\ CallerFree
  /\ \E o \in CloseOracles(Cur) : Commit(close_port(Cur, o), "close_port")

\* ~SerialInterface(): close_port(), and the object is gone: its fields hold
\* nothing any more (the values written here stand for that)
Destroy ==
  /\ CallerFree
  /\ \E o \in CloseOracles(Cur) :
       LET m == close_port(Cur, o)
       IN  Commit(IF m.hung THEN m
                  ELSE [m EXCEPT !.alive = FALSE,
                                 !.port_termios = UninitControlBlock(backend),
                                 !.port_termios_saved = UninitControlBlock(backend),
                                 !.ret = NoRet],
                  "destroy")

Write ==
  /\ CallerFree
  /\ \E count \in Counts :
     \E o \in IF ~is_open(Cur) THEN {[err |-> "none", n |-> 0]}
              ELSE IF backend = "posix" THEN PosixWriteOutcomes(Cur, count)
              ELSE WinIoOutcomes(Cur) :
     \E oc \in IF backend = "posix" /\ is_open(Cur) /\ o.n = -1
               THEN CloseOracles(Cur) ELSE {NoCloseOracle} :
       Commit(write(Cur, count, o, oc), "write")

Read ==
  /\ CallerFree
  /\ \E count \in Counts :
     \E o \in IF ~is_open(Cur) THEN {[err |-> "none", n |-> 0]}
              ELSE IF backend = "posix" THEN PosixReadOutcomes(Cur, count)
              ELSE WinIoOutcomes(Cur) :
     \E oc \in IF backend = "posix" /\ is_open(Cur) /\ o.n = -1
               THEN CloseOracles(Cur) ELSE {NoCloseOracle} :
       Commit(read(Cur, count, o, oc), "read")

SetPort ==
  /\ CallerFree
  /\ \E p \in Ports : Commit([set_port(Cur, p) EXCEPT !.arg = p], "set_port")

SetBaud ==
  /\ CallerFree /\ sets < MaxSets
  /\ \E b \in BaudInputs, k \in BOOLEAN :
       Commit([set_baud(Cur, b, k) EXCEPT !.arg = b, !.sets = @ + 1], "set_baud")

SetBits ==
  /\ CallerFree /\ sets < MaxSets
  /\ \E b \in BitsInputs, k \in BOOLEAN :
       Commit([set_bits(Cur, b, k) EXCEPT !.arg = b, !.sets = @ + 1], "set_bits")

SetFlow ==
  /\ CallerFree /\ sets < MaxSets
  /\ \E f \in FlowInputs, k \in BOOLEAN :
       Commit([set_flow(Cur, f, k) EXCEPT !.arg = f, !.sets = @ + 1], "set_flow")

SetParity ==
  /\ CallerFree /\ sets < MaxSets
  /\ \E p \in ParityInputs, k \in BOOLEAN :
       Commit([set_parity(Cur, p, k) EXCEPT !.arg = p, !.sets = @ + 1], "set_parity")

\* the names the host's directories and device table hold, and the lists the
\* passes over them collect (a device found by two passes is collected twice)
HostNames == {<<"p", "2">>, <<"p", "0", "2">>, <<"p", "1", "0">>, <<"q", "1">>}

Collected == UNION {[1..n -> HostNames] : n \in 0..MaxPorts}

EnumeratePorts ==
  /\ CallerFree
  /\ \E collected \in Collected : \E sorted \in SortOutcomes(collected) :
       Commit(enumerate_ports(Cur, collected, sorted), "enumerate_ports")

\* the line delivers bytes to the open device
DeviceReceives ==
  /\ ~hung /\ PortHandle \in oshandles /\ ~pending
  /\ Commit([Cur EXCEPT !.pending = TRUE], "device")

(* ------------------------- the watcher thread ------------------------- *)

\* select_thread runs detached and reads the object's fields with no lock; once
\* the object is destroyed a read of a field may give anything
SeenFlag(v) == IF alive THEN {v} ELSE BOOLEAN
SeenHandle(h) == IF alive THEN {h} ELSE {h, NoHandle, PortHandle}

\* a handle value read now is the handle of the session that is open now
IsLiveHandle(h) == h # NoHandle /\ h = port_fd /\ h \in oshandles

\* one step of thread t: its next position and the handle it waits on
WatcherStep(t, pc2, fd2, entries) ==
  LET next == [pc |-> pc2, fd |-> fd2, own |-> t.own,
               live |-> pc2 \in {"wait", "ready"} /\ IsLiveHandle(fd2)
                        /\ (t.pc = "arm" \/ t.live)]
      others == watchers (-) SetToBag({t})
  IN  Commit([Cur EXCEPT !.watchers = IF pc2 = "none" THEN others
                                      ELSE others (+) SetToBag({next}),
                         !.trace = entries],
             "select_thread")

\* while (running && is_open()) on POSIX, while (is_open()) on Windows
WatcherLoop(t) ==
  /\ ~hung /\ t.pc = "loop"
  /\ \E r \in SeenFlag(running), h \in SeenHandle(port_fd) :
       LET go == (backend = "posix" => r) /\ h # NoHandle
       IN  WatcherStep(t, IF go THEN "arm" ELSE "none", NoHandle, <<>>)

\* POSIX: FD_SET(port_fd, &input); select(port_fd + 1, &input, ...) is entered.
\* Windows: ResetEvent; WaitCommEvent(h_port, &e_event, &ov), which ends the
\* thread when it fails with anything but ERROR_IO_PENDING.
WatcherArm(t) ==
  /\ ~hung /\ t.pc = "arm"
  /\ \E h \in SeenHandle(port_fd) :
       LET who == [own |-> t.own, live |-> IsLiveHandle(h)]
       IN  IF backend = "posix"
           THEN WatcherStep(t, "wait", h, <<Ev(Cur, "select", h, who, TRUE)>>)
           ELSE \E k \in (IF h \in oshandles THEN BOOLEAN ELSE {FALSE}) :
                  WatcherStep(t, IF k THEN "wait" ELSE "none", h,
                              <<Ev(Cur, "WaitCommEvent", h, who, k)>>)

\* what the wait comes back with. POSIX select with a 1 s timeout: ready when
\* bytes are queued, a timeout when not, or a failure; on a descriptor that
\* was -1, closed or replaced meanwhile the result is unspecified.
\* Windows WaitForSingleObject(h_overlapped_thread, INFINITE): the event of a
\* received character; after close_port's SetCommMask and CloseHandle the wait
\* ends with no event or fails; on the NULL that a failed CreateEvent left in
\* the field it fails.
WaitOutcomes(t) ==
  IF backend = "posix"
  THEN IF t.live
       THEN {"error"} \cup (IF pending THEN {"ready"} ELSE {"timeout"})
       ELSE {"error", "timeout", "ready"}
  ELSE IF t.live /\ h_overlapped_thread \in oshandles
       THEN (IF pending THEN {"ready"} ELSE {})
       ELSE IF alive /\ h_overlapped_thread = NullHandle
       THEN {"error"}
       ELSE {"error", "timeout"}

\* a thread that treats the timeout of its wait as a failure (C17 tells it
\* from WatcherWake)
WatcherWakeEndsOnTimeout(t) ==
  /\ ~hung /\ t.pc = "wait"
  /\ \E r \in WaitOutcomes(t) :
       WatcherStep(t, IF r = "ready" THEN "ready" ELSE "none",
                   IF r = "ready" THEN t.fd ELSE NoHandle,
                   <<Ev(Cur, "woke", r, [own |-> t.own, live |-> t.live],
                        r # "error")>>)

WatcherWake(t) ==
  /\ ~hung /\ t.pc = "wait"
  /\ \E r \in WaitOutcomes(t) :
       WatcherStep(t,
                   CASE r = "error" -> "none" [] r = "timeout" -> "loop"
                     [] OTHER -> "ready",
                   IF r = "ready" THEN t.fd ELSE NoHandle,
                   <<Ev(Cur, "woke", r, [own |-> t.own, live |-> t.live],
                        r # "error")>>)

\* POSIX: if (FD_ISSET(port_fd, &input)) signal_receive_data.emit(); the field
\* is read again, and a bit of another descriptor (or of -1) may or may not be set.
\* Windows: if (e_event == EV_RXCHAR) signal_receive_data.emit().
\* on_receive_data() passes the signal on as m_port_receive_data.
WatcherEmit(t) ==
  /\ ~hung /\ t.pc = "ready"
  /\ \E h \in SeenHandle(port_fd) :
     \E isset \in (IF backend = "win" \/ h = t.fd THEN {TRUE} ELSE BOOLEAN) :
       WatcherStep(t, "loop", NoHandle,
                   IF isset
                   THEN <<Ev(Cur, "emit", "port_receive_data",
                             [own |-> t.own, live |-> t.live], TRUE)>>
                   ELSE <<>>)

(* -------------------------- the specification ------------------------- *)

\* SerialInterface::SerialInterface()
Init ==
  /\ backend \in Backends
  /\ alive = TRUE /\ hung = FALSE
  /\ port = "" /\ baud = 19200 /\ bits = 8
  /\ flow = SI_FLOW_NONE /\ parity = SI_PARITY_NONE
  /\ running = FALSE
  /\ port_fd = NoHandle /\ h_overlapped = NoHandle /\ h_overlapped_thread = NoHandle
  /\ port_termios = UninitControlBlock(backend)
  /\ port_termios_saved = UninitControlBlock(backend)
  /\ devcb = DeviceControlBlock(backend)
  /\ oshandles = {} /\ pending = FALSE
  /\ watchers = EmptyBag
  /\ op = "constructor" /\ ret = NoRet /\ bytes_out = BytesBefore /\ arg = NoArg
  /\ sets = 0
  /\ announced = FALSE
  /\ trace = <<>>
  /\ cbAtOpen = NoVal /\ openedPort = ""

Next ==
  \/ OpenPort
  \/ ClosePort
  \/ Destroy
  \/ Write
  \/ Read
  \/ SetPort
  \/ DeviceReceives
  \/ \E t \in BagToSet(watchers) : WatcherLoop(t)
  \/ \E t \in BagToSet(watchers) : WatcherArm(t)
  \/ \E t \in BagToSet(watchers) : WatcherWake(t)
  \/ \E t \in BagToSet(watchers) : WatcherEmit(t)

Spec == Init /\ [][Next]_vars

\* the caller alone, with the setter of one transport parameter: no watcher
\* thread takes a step (none reads or writes a field the setters work on), and
\* no setter touches the field of another
\* a step of thread t of select_thread
WatcherRun(t) == WatcherLoop(t) \/ WatcherArm(t) \/ WatcherWake(t) \/ WatcherEmit(t)

\* the scheduler lets a thread that can run do so in the end: the thread the
\* open session created, and the threads earlier sessions left
RunsOwn == \E t \in BagToSet(watchers) : t.own /\ WatcherRun(t)
RunsLeft == \E t \in BagToSet(watchers) : ~t.own /\ WatcherRun(t)

SpecFair == Init /\ [][Next]_vars /\ WF_vars(RunsOwn) /\ WF_vars(RunsLeft)

NextParity ==
  \/ OpenPort
  \/ ClosePort
  \/ SetPort
  \/ SetParity

SpecParity == Init /\ [][NextParity]_vars

\* the caller opens, closes and sets every transport parameter
NextConfig ==
  \/ OpenPort
  \/ ClosePort
  \/ SetPort
  \/ SetBaud
  \/ SetBits
  \/ SetFlow
  \/ SetParity

SpecConfig == Init /\ [][NextConfig]_vars

NextEnum == EnumeratePorts

SpecEnum == Init /\ [][NextEnum]_vars

NextBits ==
  \/ OpenPort
  \/ ClosePort
  \/ SetPort
  \/ SetBits

SpecBits == Init /\ [][NextBits]_vars

NextBaud ==
  \/ OpenPort
  \/ ClosePort
  \/ SetPort
  \/ SetBaud

SpecBaud == Init /\ [][NextBaud]_vars

NextFlow ==
  \/ OpenPort
  \/ ClosePort
  \/ SetPort
  \/ SetFlow

SpecFlow == Init /\ [][NextFlow]_vars

(* ----------------------- reading the last step ------------------------ *)

\* positions of the trace
Entries == DOMAIN trace

\* the notifications of the last step
Emitted(sig) == {i \in Entries : trace[i].call = "emit" /\ trace[i].arg = sig}

\* the calls of the last step that reached the OS or the thread library
Called == {i \in Entries : trace[i].call # "emit"}

\* ::write / ::read / WriteFile / ReadFile: the one transfer call of write() or read()
Transfers == {i \in Entries : trace[i].call \in {"write", "read", "WriteFile", "ReadFile"}}

\* open() / CreateFile()
Acquisitions == {i \in Entries : trace[i].call \in {"open", "CreateFile"}}

\* close(port_fd) / CloseHandle(h_port)
PortReleases ==
  {i \in Entries : trace[i].call \in {"close", "CloseHandle"} /\ trace[i].arg = PortHandle}

\* threads that wait, or woke up with data, on the handle of the open session
Serving(t) == t.pc \in {"wait", "ready"} /\ t.live

\* the fields of the object and what the OS holds for it
Fields == <<port, baud, bits, flow, parity, running, port_fd, h_overlapped,
            h_overlapped_thread, port_termios, port_termios_saved>>
OsState == <<devcb, oshandles, pending, watchers>>

(* ------------------------------ claims -------------------------------- *)

\* C1: at most one watcher task is alive at any moment. Counted are only the
\* threads that wait, or woke up with data, on the handle of the open session:
\* a thread that is on its way out is not among them.
C1_AtMostOneWatcher == CopiesIn(TRUE, BagOfAll(Serving, watchers)) <= 1

\* C2: every release of the port handle of a successfully opened session (a
\* release that does not follow the acquisition within the same call) finds
\* the device's control block equal to its value when that handle was acquired.
C2_RestoresSnapshot ==
  \A i \in PortReleases :
    (trace[i].ok /\ \A j \in Acquisitions : j > i) =>
      trace[i].val.now = trace[i].val.at_open

\* C3: when the OS reports an error for the transfer call of read() or write()
\* on an Open port, the call emits port-error, the port is Closed when the
\* call returns, and the call returns the error status.
C3_TransferErrorCloses ==
  (op \in {"read", "write"} /\ \E i \in Transfers : ~trace[i].ok) =>
    /\ Emitted("port_error") # {}
    /\ port_fd = NoHandle
    /\ ret = SI_ERROR

\* C4: a failed transfer on an Open port gives exactly one port-error, before
\* the port-closed of the close that follows, and leaves the port Closed;
\* read() / write() on a Closed port emit no port-error.
C4_OnePortErrorThenClosed ==
  /\ (op \in {"read", "write"} /\ \E i \in Transfers : ~trace[i].ok) =>
       /\ Cardinality(Emitted("port_error")) = 1
       /\ \E e \in Emitted("port_error") : \E c \in Emitted("port_closed") : e < c
       /\ port_fd = NoHandle
  /\ (op \in {"read", "write"} /\ Transfers = {}) => Emitted("port_error") = {}

\* C5: close() on an Open port (a call that reached the OS) terminates,
\* returns success, leaves the port Closed and no handle held.
C5_CloseSucceeds ==
  (op = "close_port" /\ Called # {}) =>
    /\ ~hung
    /\ ret = SI_SUCCESS
    /\ port_fd = NoHandle
    /\ oshandles = {}

\* C6: a freshly constructed object is Closed, and close() on a Closed port
\* returns success, changes no field, makes no OS call and emits nothing.
C6_CloseOnClosedIsNoOp ==
  [][/\ op' = "constructor" => port_fd' = NoHandle
     /\ (port_fd = NoHandle /\ op' = "close_port") =>
          /\ ret' = SI_SUCCESS
          /\ trace' = <<>>
          /\ UNCHANGED <<Fields, OsState>>]_vars

C6_Witness == op = "close_port" /\ trace = <<>> /\ ret = SI_SUCCESS /\ port = "p1"

\* C7: read() and write() on a Closed port return the not-open status, make
\* no OS call, emit nothing and change no field nor the caller's byte count.
C7_TransferOnClosedIsNoOp ==
  [][(port_fd = NoHandle /\ op' \in {"read", "write"}) =>
          /\ ret' = SI_PORT_NOT_OPEN
          /\ trace' = <<>>
          /\ bytes_out' = BytesBefore
          /\ UNCHANGED <<Fields, OsState>>]_vars

C7_Witness == op \in {"read", "write"} /\ ret = SI_PORT_NOT_OPEN /\ port = "p1"

\* C8: when open() fails to acquire the handle it returns the failure status,
\* the port is Closed, no watcher was started and no port-opened was emitted.
C8_FailedAcquire ==
  (op = "open_port" /\ \E i \in Acquisitions : ~trace[i].ok) =>
    /\ ret = SI_ERROR
    /\ port_fd = NoHandle
    /\ running = FALSE
    /\ \A i \in Entries : trace[i].call # "Thread::create"
    /\ Emitted("port_opened") = {}

C8_Witness ==
  /\ op = "open_port" /\ port = "p2"
  /\ \E i \in Acquisitions : ~trace[i].ok

\* C9: when a call open() makes after it acquired the handle fails, open()
\* returns failure, the port is Closed, no watcher runs and no port-opened
\* was emitted.
C9_FailedSetup ==
  (op = "open_port" /\ ~hung
     /\ \E i \in Acquisitions : trace[i].ok /\ \E j \in Called : j > i /\ ~trace[j].ok) =>
    /\ ret = SI_ERROR
    /\ port_fd = NoHandle
    /\ running = FALSE
    /\ Emitted("port_opened") = {}

\* C10: set_port(p) on an Open port leaves the identifier and returns it; on a
\* Closed port it sets the identifier to p; the identifier changes only
\* while the port is Closed, and that of an Open port is the one it was
\* opened with.
C10_IdentifierOnlyWhileClosed ==
  [][/\ (op' = "set_port" /\ port_fd # NoHandle) => (port' = port /\ ret' = port)
     /\ (op' = "set_port" /\ port_fd = NoHandle) => (port' = arg' /\ ret' = arg')
     /\ port' # port => port_fd = NoHandle
     /\ port_fd' # NoHandle => port' = openedPort']_vars

C10_Witness == op = "set_port" /\ port_fd # NoHandle /\ arg # port

\* C11: set_bits(b) with b outside 5..8 leaves the stored bits and returns
\* them, with b in 5..8 it stores b; the stored bits are in 5..8 in every state.
C11_BitsInRange ==
  /\ bits \in 5..8
  /\ [][/\ (op' = "set_bits" /\ arg' \notin 5..8) => (bits' = bits /\ ret' = bits)
        /\ (op' = "set_bits" /\ arg' \in 5..8) => (bits' = arg' /\ ret' = arg')
        /\ bits' \in 5..8]_vars

C11_Witness == op = "set_bits" /\ arg = 9 /\ bits = 7 /\ ret = 7

\* the control blocks configure_port() pushed in the last step
Configured == {i \in Entries : trace[i].arg = "configure"}

\* the rate a control block holds: the Bnnn flag of c_cflag, or BaudRate
RateOf(cb) ==
  IF backend = "posix"
  THEN cb.c_cflag \cap {"B300", "B600", "B1200", "B2400", "B4800", "B9600",
                        "B19200", "B38400", "B57600", "B115200"}
  ELSE {cb.BaudRate}

\* C12: the rate configure() places in the control block is the requested
\* rate when that is one of the ten supported rates, and the rate for 19200
\* for every other request, whatever rate was placed before.
C12_RateOfRequest ==
  \A i \in Configured :
    LET want == IF baud \in {300, 600, 1200, 2400, 4800, 9600, 19200, 38400,
                             57600, 115200}
                THEN baud ELSE 19200
        name == CASE want = 300 -> "B300" [] want = 600 -> "B600"
                  [] want = 1200 -> "B1200" [] want = 2400 -> "B2400"
                  [] want = 4800 -> "B4800" [] want = 9600 -> "B9600"
                  [] want = 19200 -> "B19200" [] want = 38400 -> "B38400"
                  [] want = 57600 -> "B57600" [] want = 115200 -> "B115200"
    IN  RateOf(trace[i].val) = IF backend = "posix" THEN {name} ELSE {want}

C12_Witness ==
  /\ op = "set_baud" /\ arg = 14400 /\ baud = 14400
  /\ \E i \in Configured : trace[i].ok

\* C13: in every state the stored baud, which set_baud() and the getter
\* return, is one of the ten supported rates (an unsupported request being
\* stored as 19200).
C13_StoredBaudSupported ==
  /\ baud \in {300, 600, 1200, 2400, 4800, 9600, 19200, 38400, 57600, 115200}
  /\ op = "set_baud" =>
       ret = IF arg \in {300, 600, 1200, 2400, 4800, 9600, 19200, 38400, 57600,
                         115200}
             THEN arg ELSE 19200

\* the flow-control settings a control block asserts
FlowGroupOf(cb) ==
  IF backend = "posix"
  THEN (cb.c_cflag \cap {"CLOCAL", "CRTSCTS"})
       \cup (cb.c_iflag \cap {"IXON", "IXOFF", "IXANY"})
  ELSE {<<"cts", cb.fOutxCtsFlow>>, <<"dsr", cb.fOutxDsrFlow>>,
        <<"dtr", cb.fDtrControl>>, <<"rts", cb.fRtsControl>>,
        <<"outx", cb.fOutX>>, <<"inx", cb.fInX>>}

\* C14: the control block configure() produces asserts the flag group of the
\* selected flow mode (none: local line, hardware: RTS/CTS, XON/XOFF) and no
\* flag of the two other groups, whatever modes were selected before.
C14_FlowGroupExact ==
  /\ flow \in {SI_FLOW_NONE, SI_FLOW_HARDWARE, SI_FLOW_XON_XOFF}
  /\ \A i \in Configured :
       FlowGroupOf(trace[i].val) =
         IF backend = "posix"
         THEN CASE flow = SI_FLOW_NONE -> {"CLOCAL"}
                [] flow = SI_FLOW_HARDWARE -> {"CRTSCTS"}
                [] flow = SI_FLOW_XON_XOFF -> {"IXON", "IXOFF"}
         ELSE LET hw == flow = SI_FLOW_HARDWARE
                  line == IF hw THEN "HANDSHAKE" ELSE "DISABLE"
                  sw == flow = SI_FLOW_XON_XOFF
              IN  {<<"cts", hw>>, <<"dsr", hw>>, <<"dtr", line>>,
                   <<"rts", line>>, <<"outx", sw>>, <<"inx", sw>>}

\* a change to XON/XOFF on a device still holding the hardware-handshake
\* block of the mode selected before it
C14_Witness ==
  /\ op = "set_flow" /\ arg = SI_FLOW_XON_XOFF /\ flow = SI_FLOW_XON_XOFF
  /\ Configured # {}
  /\ IF backend = "posix" THEN "CRTSCTS" \in devcb.c_cflag
                          ELSE devcb.fOutxCtsFlow

\* C15: the list enumerate_ports() returns holds no name twice and is in
\* natural order (runs of digits compared as numbers: p2 before p10).
C15_NoDuplicatesNaturalOrder ==
  op = "enumerate_ports" =>
    \A i \in 1..Len(ret), j \in 1..Len(ret) :
      i < j => ret[i] # ret[j] /\ ~alphanum_less(ret[j], ret[i])

\* the caller makes no call any more
CallerQuiet == op \in {"select_thread", "device"}

\* C16: a watcher ends with the session whose open() started it, whatever the
\* caller does after the close (a later open() included): once the caller's
\* calls have come to an end, the threads of sessions that are over are gone.
C16_WatcherEndsWithSession ==
  <>[]CallerQuiet => <>[](\A t \in BagToSet(watchers) : t.own)

\* the open port has bytes queued and the thread its open() created is there
WatcherOwes ==
  /\ alive /\ ~hung /\ port_fd # NoHandle /\ pending
  /\ \E t \in BagToSet(watchers) : t.own

\* C17: while the port stays open with bytes queued and its watcher there, the
\* watcher gets to raise data-available when every thread that can run does
\* so in the end; and neither the end of a wait without an error nor a raised
\* notification ends the watcher: it is back at the head of its loop.
C17_WatcherNotifiesAndLoops ==
  /\ WatcherOwes ~> (Emitted("port_receive_data") # {} \/ ~WatcherOwes)
  /\ [][(/\ op' = "select_thread"
          /\ \E i \in DOMAIN trace' :
               \/ trace'[i].call = "emit"
               \/ trace'[i].call = "woke" /\ trace'[i].ok)
         => BagCardinality(watchers') = BagCardinality(watchers)]_vars

\* the watcher of the open session has raised data-available and is back at
\* the head of its loop
C17_Witness ==
  /\ op = "select_thread" /\ port_fd # NoHandle
  /\ \E i \in Emitted("port_receive_data") : trace[i].val.own /\ trace[i].val.live
  /\ \E t \in BagToSet(watchers) : t.own /\ t.pc = "loop"

\* the wait or the call that sets it up has failed in the step just made
WaitFailed(tr) ==
  \E i \in DOMAIN tr : tr[i].call \in {"woke", "WaitCommEvent"} /\ ~tr[i].ok

\* the step of a watcher whose wait fails
C18_FailureIsSilent ==
  [][(op' = "select_thread" /\ WaitFailed(trace'))
       => /\ BagCardinality(watchers') = BagCardinality(watchers) - 1
          /\ \A i \in DOMAIN trace' : trace'[i].call # "emit"
          /\ UNCHANGED <<Fields, devcb, oshandles, pending>>]_vars

\* the open session whose watcher is gone
C18_NoMoreData ==
  (alive /\ port_fd # NoHandle /\ \A t \in BagToSet(watchers) : ~t.own)
    => Emitted("port_receive_data") = {}

\* C18: a watcher whose wait, or the call setting the wait up, fails ends
\* without port-error or port-closed and leaves the port as it is (open, handle
\* and running flag unchanged); no data-available is raised for that session
\* from then on.
C18_WatcherFailsSilently == C18_FailureIsSilent /\ []C18_NoMoreData

\* the entries of one call's trace tr that are calls of the given names
CallsOf(tr, names) == {i \in DOMAIN tr : tr[i].call \in names}

\* port-closed / port-opened among the entries of tr
SignalsOf(tr, sig) == {i \in DOMAIN tr : tr[i].call = "emit" /\ tr[i].arg = sig}

\* the close sequence in tr, complete and in order, before any acquisition:
\* the restore of the snapshot with the running flag cleared, the flush, the
\* release of the port's handle, port-closed
ClosesFirst(tr) ==
  \E r \in CallsOf(tr, {"tcsetattr", "SetCommState"}),
     f \in CallsOf(tr, {"tcflush", "PurgeComm", "FlushFileBuffers"}),
     c \in CallsOf(tr, {"close", "CloseHandle"}),
     e \in SignalsOf(tr, "port_closed") :
    /\ tr[r].arg = "restore" /\ ~tr[r].running
    /\ tr[c].arg = PortHandle
    /\ ~tr[e].open
    /\ r < f /\ f < c /\ c < e
    /\ \A a \in CallsOf(tr, {"open", "CreateFile"}) : e < a

\* C19: open() on an open port goes through the whole close sequence on the
\* old handle (running flag cleared, snapshot restored, flush, release,
\* port-closed) before it acquires a handle; when it succeeds port-closed is
\* followed by port-opened, when it fails the port is closed.
C19_ReopenClosesFirst ==
  [][(op' = "open_port" /\ port_fd # NoHandle)
       => /\ ClosesFirst(trace')
          /\ CallsOf(trace', {"open", "CreateFile"}) # {}
          /\ ret' = SI_SUCCESS =>
               \E e \in SignalsOf(trace', "port_closed"),
                  o \in SignalsOf(trace', "port_opened") : e < o
          /\ ret' # SI_SUCCESS => port_fd' = NoHandle]_vars

\* at port-opened: the port is open, the device has taken the configuration,
\* the thread is created and the running flag set
C20_AtOpened ==
  \A i \in Emitted("port_opened") :
    /\ trace[i].open /\ trace[i].running
    /\ \E j \in Configured : j < i /\ trace[j].ok
    /\ \E j \in Entries : j < i /\ trace[j].call = "Thread::create"

\* at port-closed: the port is not open, the running flag is cleared, the
\* handle is released
C20_AtClosed ==
  \A i \in Emitted("port_closed") :
    /\ ~trace[i].open /\ ~trace[i].running
    /\ \E j \in PortReleases : j < i /\ trace[j].ok

\* C20: a notification is raised only when the state it announces is there:
\* port-opened with the port open, the configuration applied and the watcher
\* started; port-closed with the port not open, the running flag cleared and
\* the handle released.
C20_NotifiedStateHolds == C20_AtOpened /\ C20_AtClosed

\* the control block cb holds what the stored baud, bits, parity and flow stand
\* for, and nothing of another value of theirs
HoldsFields(cb) ==
  LET rate == IF baud \in {300, 600, 1200, 2400, 4800, 9600, 19200, 38400,
                           57600, 115200}
              THEN baud ELSE 19200
  IN  IF backend = "posix"
      THEN /\ cb.c_cflag \cap {"CS5", "CS6", "CS7", "CS8"} =
                {CASE bits = 5 -> "CS5" [] bits = 6 -> "CS6" [] bits = 7 -> "CS7"
                   [] bits = 8 -> "CS8"}
           /\ cb.c_cflag \cap {"PARENB", "PARODD"} =
                CASE parity = SI_PARITY_NONE -> {}
                  [] parity = SI_PARITY_ODD -> {"PARENB", "PARODD"}
                  [] parity = SI_PARITY_EVEN -> {"PARENB"}
           /\ cb.c_cflag \cap {"CLOCAL", "CRTSCTS"} =
                CASE flow = SI_FLOW_NONE -> {"CLOCAL"}
                  [] flow = SI_FLOW_HARDWARE -> {"CRTSCTS"}
                  [] flow = SI_FLOW_XON_XOFF -> {}
           /\ cb.c_iflag \cap {"IXON", "IXOFF", "IXANY"} =
                IF flow = SI_FLOW_XON_XOFF THEN {"IXON", "IXOFF"} ELSE {}
           /\ \E w \in {<<300, "B300">>, <<600, "B600">>, <<1200, "B1200">>,
                         <<2400, "B2400">>, <<4800, "B4800">>, <<9600, "B9600">>,
                         <<19200, "B19200">>, <<38400, "B38400">>,
                         <<57600, "B57600">>, <<115200, "B115200">>} :
                w[1] = rate /\ RateOf(cb) = {w[2]}
      ELSE /\ cb.BaudRate = rate
           /\ cb.ByteSize = bits
           /\ cb.Parity = CASE parity = SI_PARITY_NONE -> "NOPARITY"
                             [] parity = SI_PARITY_ODD -> "ODDPARITY"
                             [] parity = SI_PARITY_EVEN -> "EVENPARITY"
           /\ cb.fOutxCtsFlow = (flow = SI_FLOW_HARDWARE)
           /\ cb.fRtsControl =
                (IF flow = SI_FLOW_HARDWARE THEN "HANDSHAKE" ELSE "DISABLE")
           /\ cb.fOutX = (flow = SI_FLOW_XON_XOFF)
           /\ cb.fInX = (flow = SI_FLOW_XON_XOFF)

\* the calls of the last step that handed a control block to the device
Pushes == {i \in Entries : trace[i].call \in {"tcsetattr", "SetCommState"}}

\* C21: while the port is open (and no call is under way) the control block
\* pushed last to the handle is the one the stored baud, bits, parity and flow
\* stand for: a successful open() and every setter, one that rejected its
\* argument included, end by pushing it, so that fields set while the port was
\* closed reach the device with the next successful open().
C21_PushedBlockHoldsFields ==
  /\ (alive /\ ~hung /\ port_fd # NoHandle) => HoldsFields(port_termios)
  /\ op \in {"set_baud", "set_bits", "set_flow", "set_parity"} =>
       /\ Pushes # {} /\ Pushes \subseteq Configured
       /\ \A i \in Pushes : HoldsFields(trace[i].val)
  /\ (op = "open_port" /\ ~hung /\ port_fd # NoHandle) =>
       \E i \in Configured :
         /\ HoldsFields(trace[i].val) /\ trace[i].val = port_termios
         /\ \A j \in Pushes : j <= i
         /\ \E a \in Acquisitions : a < i /\ trace[a].ok

\* a setter that rejects its argument on an open port whose baud and parity
\* were set before
C21_Witness ==
  /\ op = "set_flow" /\ arg = 3 /\ port_fd # NoHandle
  /\ baud = 9600 /\ parity = SI_PARITY_EVEN /\ flow = SI_FLOW_NONE
  /\ \E i \in Configured : trace[i].ok /\ trace[i].val = devcb

\* C22: port-opened and port-closed alternate, port-opened first, over every
\* run on either backend, open() calls that fail part-way included: none of
\* the two is raised twice with the other not raised in between.
C22_OpenedClosedAlternate ==
  [][\A i \in 1..Len(Told(trace')) :
       (Told(trace')[i].arg = "port_opened") =
         ~(IF i = 1 THEN announced ELSE Told(trace')[i - 1].arg = "port_opened")]_vars

\* C23: data-available is raised only while the port is open, by the watcher
\* of the open session: under no interleaving of the watcher with close() is
\* it raised on a closed port or after the session of its watcher is over.
C23_DataOnlyWhileOpen ==
  \A i \in Emitted("port_receive_data") : trace[i].open /\ trace[i].val.own

\* C24: the handle a watcher hands to the wait of the OS is the valid handle
\* of the session that started it, under every interleaving with close() and
\* open(): never the value of a closed port, never the handle of another session.
C24_WaitsOnOwnHandle ==
  \A i \in CallsOf(trace, {"select", "WaitCommEvent"}) :
    /\ trace[i].arg # NoHandle
    /\ trace[i].val.own /\ trace[i].val.live

\* C25: the control block the close sequence writes to a handle is the
\* snapshot read from that handle in the open attempt that acquired it: not
\* one of an earlier session, not uninitialised memory, also when the close
\* comes from a failure inside open() before the snapshot was taken.
C25_RestoresOwnSnapshot ==
  \A i \in Pushes : \A j \in PortReleases :
    (trace[i].arg = "restore" /\ i < j /\ \A k \in PortReleases : ~(i < k /\ k < j))
      => trace[i].val = trace[j].val.at_open

\* C26: on POSIX a read() on an open port with nothing queued, which the OS
\* answers with would-block (the handle is opened O_NDELAY), raises no
\* port-error and leaves the port open.
C26_WouldBlockIsNoError ==
  (backend = "posix" /\ op = "read"
     /\ \E i \in Transfers : trace[i].call = "read" /\ trace[i].arg = "EAGAIN")
    => /\ Emitted("port_error") = {}
       /\ port_fd # NoHandle

====
